---- MODULE Spec2Model ----
(***************************************************************************)
(* Model of the CEC helper routines of IOHexperimenter                     *)
(* (include/ioh/problem/cec/cec_utils.hpp), of the IOHquery JSON schema    *)
(* and of the PBO problem LeadingOnesDummy2.                               *)
(*                                                                         *)
(* Every operation is one action.  The harness performs one operation from *)
(* the ready state; the arguments of the call are kept in `args` so that   *)
(* the properties can relate the result to the inputs.                     *)
(*                                                                         *)
(* std::vector<T> is a sequence; C++ index i is sequence index i+1.        *)
(* double values are modelled by integers (sr_func) and by integers in     *)
(* units of one half (data-file tokens, so that 1.5 is the token 3).       *)
(***************************************************************************)
EXTENDS Integers, Sequences, FiniteSets, TLC

VARIABLES pc, op, args, x, Os, Mr, SS, ret, outcome, prob,
          logger, eval_count, calls, rng

vars == <<pc, op, args, x, Os, Mr, SS, ret, outcome, prob,
          logger, eval_count, calls, rng>>

\* ---------------------------------------------------------------- bounds
\* largest dimension (nx, dim) and vector length explored
MaxDim == 2

\* ---------------------------------------------------------------- inputs
\* coordinates of the candidate vector x
XVals == {-1, 2}

\* coordinates of the shift vector Os
OsVals == {1, 2}

\* shrink rates
ShRates == {2, 3}

\* all vectors over S of length at most n
Vectors(S, n) == UNION {[1..k -> S] : k \in 0..n}

\* rotation tables: length 0..MaxDim^2, entry k (1-based) is a*k + b
MrShapes == {<<0, 1>>, <<1, 0>>, <<-1, 1>>, <<2, -3>>}

MrTables == {[k \in 1..len |-> sh[1] * k + sh[2]] :
               len \in 0..(MaxDim * MaxDim), sh \in MrShapes}

\* ------------------------------------------------- std::vector::at
\* at(i) throws std::out_of_range unless 0 <= i < size()
InRange(v, i) == i >= 0 /\ i < Len(v)

\* ------------------------------------------------- CecUtils::shiftfunc
RECURSIVE shiftLoop(_, _, _, _)
shiftLoop(xv, OsV, nx, i) ==
    IF ~(i < nx) THEN [x |-> xv, ok |-> TRUE]
    ELSE IF ~InRange(xv, i) \/ ~InRange(OsV, i) THEN [x |-> xv, ok |-> FALSE]
    ELSE shiftLoop([xv EXCEPT ![i + 1] = xv[i + 1] - OsV[i + 1]], OsV, nx, i + 1)

\* shiftfunc reading a missing Os entry as 0 instead of throwing
RECURSIVE shiftLoopPad(_, _, _, _)
shiftLoopPad(xv, OsV, nx, i) ==
    IF ~(i < nx) THEN [x |-> xv, ok |-> TRUE]
    ELSE IF ~InRange(xv, i) THEN [x |-> xv, ok |-> FALSE]
    ELSE shiftLoopPad([xv EXCEPT ![i + 1] = xv[i + 1]
                          - (IF InRange(OsV, i) THEN OsV[i + 1] ELSE 0)],
                      OsV, nx, i + 1)

shiftfunc_zero_pad(xv, OsV, nx) == shiftLoopPad(xv, OsV, nx, 0)

shiftfunc(xv, OsV, nx) == shiftLoop(xv, OsV, nx, 0)

\* ------------------------------------------------- CecUtils::rotatefunc
\* inner loop over j: accumulates into x.at(i); the operand is cacheX
RECURSIVE rotateInner(_, _, _, _, _, _)
rotateInner(xv, cacheX, MrV, nx, i, j) ==
    IF ~(j < nx) THEN [x |-> xv, ok |-> TRUE]
    ELSE IF ~InRange(cacheX, j) \/ ~InRange(MrV, i * nx + j)
         THEN [x |-> xv, ok |-> FALSE]
    ELSE rotateInner([xv EXCEPT ![i + 1] = xv[i + 1]
                                   + cacheX[j + 1] * MrV[i * nx + j + 1]],
                     cacheX, MrV, nx, i, j + 1)

RECURSIVE rotateOuter(_, _, _, _, _)
rotateOuter(xv, cacheX, MrV, nx, i) ==
    IF ~(i < nx) THEN [x |-> xv, ok |-> TRUE]
    ELSE IF ~InRange(xv, i) THEN [x |-> xv, ok |-> FALSE]
    ELSE LET row == rotateInner([xv EXCEPT ![i + 1] = 0], cacheX, MrV, nx, i, 0)
         IN  IF row.ok THEN rotateOuter(row.x, cacheX, MrV, nx, i + 1) ELSE row

\* the same loops with the operand read from x itself (no cacheX copy)
RECURSIVE rotateInnerInPlace(_, _, _, _, _)
rotateInnerInPlace(xv, MrV, nx, i, j) ==
    IF ~(j < nx) THEN [x |-> xv, ok |-> TRUE]
    ELSE IF ~InRange(xv, j) \/ ~InRange(MrV, i * nx + j)
         THEN [x |-> xv, ok |-> FALSE]
    ELSE rotateInnerInPlace([xv EXCEPT ![i + 1] = xv[i + 1]
                                          + xv[j + 1] * MrV[i * nx + j + 1]],
                            MrV, nx, i, j + 1)

RECURSIVE rotateOuterInPlace(_, _, _, _)
rotateOuterInPlace(xv, MrV, nx, i) ==
    IF ~(i < nx) THEN [x |-> xv, ok |-> TRUE]
    ELSE IF ~InRange(xv, i) THEN [x |-> xv, ok |-> FALSE]
    ELSE LET row == rotateInnerInPlace([xv EXCEPT ![i + 1] = 0], MrV, nx, i, 0)
         IN  IF row.ok THEN rotateOuterInPlace(row.x, MrV, nx, i + 1) ELSE row

rotatefunc_nocache(xv, MrV, nx) == rotateOuterInPlace(xv, MrV, nx, 0)

rotatefunc(xv, MrV, nx) == rotateOuter(xv, xv, MrV, nx, 0)

\* ------------------------------------------------- CecUtils::sr_func
\* the scale loop: x.at(i) = x.at(i) * sh_rate
RECURSIVE scaleLoop(_, _, _, _)
scaleLoop(xv, sh_rate, nx, i) ==
    IF ~(i < nx) THEN [x |-> xv, ok |-> TRUE]
    ELSE IF ~InRange(xv, i) THEN [x |-> xv, ok |-> FALSE]
    ELSE scaleLoop([xv EXCEPT ![i + 1] = xv[i + 1] * sh_rate], sh_rate, nx, i + 1)

\* sr_func with the scale step done only when the shift step is
sr_func_scale_in_shift(xv, OsV, MrV, sh_rate, s_flag, r_flag, nx) ==
    LET s1 == IF s_flag THEN shiftfunc(xv, OsV, nx) ELSE [x |-> xv, ok |-> TRUE]
        s2 == IF ~s1.ok THEN s1
              ELSE IF s_flag THEN scaleLoop(s1.x, sh_rate, nx, 0) ELSE s1
        s3 == IF ~s2.ok THEN s2
              ELSE IF r_flag THEN rotatefunc(s2.x, MrV, nx) ELSE s2
    IN  s3

\* sr_func with the rotation step done whatever r_flag says
sr_func_always_rotate(xv, OsV, MrV, sh_rate, s_flag, r_flag, nx) ==
    LET s1 == IF s_flag THEN shiftfunc(xv, OsV, nx) ELSE [x |-> xv, ok |-> TRUE]
        s2 == IF ~s1.ok THEN s1 ELSE scaleLoop(s1.x, sh_rate, nx, 0)
        s3 == IF ~s2.ok THEN s2 ELSE rotatefunc(s2.x, MrV, nx)
    IN  s3

sr_func(xv, OsV, MrV, sh_rate, s_flag, r_flag, nx) ==
    LET s1 == IF s_flag THEN shiftfunc(xv, OsV, nx) ELSE [x |-> xv, ok |-> TRUE]
        s2 == IF ~s1.ok THEN s1 ELSE scaleLoop(s1.x, sh_rate, nx, 0)
        s3 == IF ~s2.ok THEN s2
              ELSE IF r_flag THEN rotatefunc(s2.x, MrV, nx) ELSE s2
    IN  s3

\* ------------------------------------------------- CecUtils::getFunctionBias
fnBiasDict == <<100, 1100, 700, 1900, 1700, 1600, 2100, 2200, 2400, 2500>>

\* values an out-of-bounds read of an int or double table may produce
IndetVals == {-1, 0, 3}

\* getFunctionBias indexing the table with fnNumber instead of fnNumber - 1
getFunctionBias_off_by_one(biasFlag, fnNumber, indet) ==
    IF biasFlag # 0
    THEN IF fnNumber \in 0..9 THEN fnBiasDict[fnNumber + 1] ELSE indet
    ELSE 0

\* the positions of fnBiasDict a call reads: fnNumber - 1 under biasFlag
BiasReads(biasFlag, fnNumber) == IF biasFlag # 0 THEN {fnNumber - 1} ELSE {}

\* indet is what fnBiasDict[fnNumber - 1] yields outside the table
getFunctionBias(biasFlag, fnNumber, indet) ==
    IF biasFlag # 0
    THEN IF (fnNumber - 1) \in 0..9 THEN fnBiasDict[fnNumber] ELSE indet
    ELSE 0

\* ------------------------------------------------- data files
\* A data file is a whitespace-separated list of decimal numbers.  vals are
\* its numbers in units of one half, trail says whether whitespace (a final
\* newline) follows the last number; exists is FALSE for a file that cannot
\* be opened.  The tables filled by the loaders hold doubles in the same unit.
MaxFile == 5

\* largest function number passed to a loader or to getFunctionBias
MaxFn == 24

Versions == {2014, 2015, 2017, 2019, 2020, 2021, 2022}

MissingFile == [exists |-> FALSE, vals |-> <<>>, trail |-> FALSE]

\* token i of the file: 1, 2, 3, ... or -1.5, -2.5, -3.5, ...
FileShapes == {<<2, 0>>, <<-2, -1>>}

Files == {MissingFile} \cup
         {[exists |-> TRUE, vals |-> [i \in 1..t |-> sh[1] * i + sh[2]],
           trail |-> tr] :
             t \in 0..MaxFile, sh \in FileShapes, tr \in BOOLEAN}

\* contents a caller's vector may have before a loader appends to it
PriorVectors == {<<>>, <<14>>}

\* std::ifstream after open(): failbit is set when the file cannot be opened
OpenStream(file) == [pos |-> 0, eofbit |-> FALSE, failbit |-> ~file.exists]

\* peek(): EOF when the stream is not good (and failbit is set), EOF with
\* eofbit at the end of the file, the next character otherwise
Peek(file, st) ==
    IF st.failbit \/ st.eofbit
    THEN [eof |-> TRUE, st |-> [st EXCEPT !.failbit = TRUE]]
    ELSE IF st.pos < Len(file.vals) \/ file.trail
    THEN [eof |-> FALSE, st |-> st]
    ELSE [eof |-> TRUE, st |-> [st EXCEPT !.eofbit = TRUE]]

\* operator>>(double&) on a good stream: skips whitespace and reads the next
\* number (eofbit when the number ends the file); when only whitespace is
\* left the sentry fails, eofbit and failbit are set and the target keeps
\* its uninitialized value indet
Extract(file, st, indet) ==
    IF st.pos < Len(file.vals)
    THEN [val |-> file.vals[st.pos + 1],
          st  |-> [pos |-> st.pos + 1,
                   eofbit |-> (st.pos + 1 = Len(file.vals) /\ ~file.trail),
                   failbit |-> FALSE]]
    ELSE [val |-> indet,
          st  |-> [st EXCEPT !.eofbit = TRUE, !.failbit = TRUE]]

\* conversion double -> int of push_back on a std::vector<int>: truncation
\* toward zero (h is in halves, the result in units)
DoubleToInt(h) == IF h >= 0 THEN h \div 2 ELSE -((-h) \div 2)

\* the read loop shared by the three loaders:
\*   for (i = 0; i < size; ++i) { if (peek() == EOF) break; f >> d; push_back(d); }
RECURSIVE ReadLoop(_, _, _, _, _, _, _)
ReadLoop(vec, file, st, size, i, indet, toInt) ==
    IF ~(i < size) THEN vec
    ELSE LET pk == Peek(file, st)
         IN  IF pk.eof THEN vec
             ELSE LET ex == Extract(file, pk.st, indet)
                      el == IF toInt THEN DoubleToInt(ex.val) ELSE ex.val
                  IN  ReadLoop(Append(vec, el), file, ex.st, size, i + 1,
                               indet, toInt)

\* int cf_nums[] / coeffs[] of the cecVersion == 2015 branches
cf_nums == <<0, 1, 1, 1, 1, 1, 1, 1, 1, 3, 3, 5, 5, 5, 7, 10>>

\* the positions of cf_nums / coeffs a loader call reads: fn under 2015
CfReads(fn, cecVersion) == IF cecVersion = 2015 THEN {fn} ELSE {}

\* cf_nums[fn]; indet is what the read yields outside the 16 entries
CfNumsAt(fn, indet) == IF fn \in 0..15 THEN cf_nums[fn + 1] ELSE indet

\* ------------------------------------------------- CecUtils::loadMatrixData
\* funcTreshold and coeff chosen by the cecVersion branches
MatrixParams(fn, cecVersion, indet) ==
    CASE cecVersion = 2014 -> [funcTreshold |-> 23, coeff |-> 10]
      [] cecVersion = 2015 -> [funcTreshold |-> -1, coeff |-> CfNumsAt(fn, indet)]
      [] cecVersion = 2017 -> [funcTreshold |-> 20, coeff |-> 10]
      [] cecVersion = 2019 -> [funcTreshold |-> 100, coeff |-> 1]
      [] cecVersion = 2021 -> [funcTreshold |-> 7, coeff |-> 10]
      [] cecVersion = 2022 -> [funcTreshold |-> 9, coeff |-> 12]
      [] OTHER -> [funcTreshold |-> -1, coeff |-> -1]

MatrixSize(dim, fn, cecVersion, indet) ==
    LET p == MatrixParams(fn, cecVersion, indet)
    IN  IF fn < p.funcTreshold THEN dim * dim ELSE dim * dim * p.coeff

\* loadMatrixData reading dim entries instead of dim * dim
loadMatrixData_one_row(MrV, file, dim, fn, cecVersion, indetTab, indetVal) ==
    ReadLoop(MrV, file, OpenStream(file), dim, 0, indetVal, FALSE)

loadMatrixData(MrV, file, dim, fn, cecVersion, indetTab, indetVal) ==
    ReadLoop(MrV, file, OpenStream(file),
             MatrixSize(dim, fn, cecVersion, indetTab), 0, indetVal, FALSE)

\* ------------------------------------------------- CecUtils::loadOShiftData
OShiftParams(fn, cecVersion, indet) ==
    CASE cecVersion = 2014 -> [funcTreshold |-> 23, coeff |-> 10]
      [] cecVersion = 2015 -> [funcTreshold |-> 0, coeff |-> CfNumsAt(fn, indet)]
      [] cecVersion = 2017 -> [funcTreshold |-> 20, coeff |-> 10]
      [] cecVersion = 2019 -> [funcTreshold |-> 100, coeff |-> 1]
      [] cecVersion = 2022 -> [funcTreshold |-> 9, coeff |-> 12]
      [] OTHER -> [funcTreshold |-> -1, coeff |-> -1]

OShiftSize(dim, fn, cecVersion, indet) ==
    LET p == OShiftParams(fn, cecVersion, indet)
    IN  IF fn < p.funcTreshold THEN dim ELSE p.coeff * dim

\* the loop runs only under fn < funcTreshold; the other branch is commented out
loadOShiftData(OsV, file, dim, fn, cecVersion, indetTab, indetVal) ==
    IF fn < OShiftParams(fn, cecVersion, indetTab).funcTreshold
    THEN ReadLoop(OsV, file, OpenStream(file),
                  OShiftSize(dim, fn, cecVersion, indetTab), 0, indetVal, FALSE)
    ELSE OsV

\* ------------------------------------------------- CecUtils::loadShuffleData
ShuffleCoeff(fn, cecVersion, indet) ==
    IF cecVersion \in {2014, 2017, 2019, 2021, 2022} THEN 10
    ELSE IF cecVersion = 2015 THEN CfNumsAt(fn, indet)
    ELSE 0

shuffleFlag(fn, cecVersion) ==
    CASE cecVersion = 2014 -> fn >= 17 /\ fn <= 22
      [] cecVersion = 2015 -> FALSE
      [] cecVersion = 2017 -> fn >= 11 /\ fn <= 20
      [] cecVersion = 2021 -> fn >= 5 /\ fn <= 7
      [] cecVersion = 2022 -> fn >= 6 /\ fn <= 8
      [] OTHER -> FALSE

ShuffleSize(dim, fn, cecVersion, indet) ==
    IF shuffleFlag(fn, cecVersion) THEN dim
    ELSE ShuffleCoeff(fn, cecVersion, indet) * dim

loadShuffleData(SSV, file, dim, fn, cecVersion, indetTab, indetVal) ==
    ReadLoop(SSV, file, OpenStream(file),
             ShuffleSize(dim, fn, cecVersion, indetTab), 0, indetVal, TRUE)

\* the outcomes of an indeterminate read that a call can observe
TableIndets(fn, cecVersion) ==
    IF cecVersion = 2015 /\ fn \notin 0..15 THEN IndetVals ELSE {0}

ValueIndets(file) == IF file.exists /\ file.trail THEN {-2, 0} ELSE {0}

\* ------------------------------------------------- IOHquery schema
\* JSON values: a record with the type t and the value in a field of its
\* own (str, num, items, v); the v of an object is a function from the names
\* it has to JSON values.
JStr(str) == [t |-> "string", str |-> str]

JNum(n) == [t |-> "number", num |-> n]

JArr(seq) == [t |-> "array", items |-> seq]

JObj(fields) == [t |-> "object", v |-> fields]

Has(j, name) == j.t = "object" /\ name \in DOMAIN j.v

\* an object without members
NoFields == [name \in {} |-> 0]

\* properties.query_type: a string out of the enum
Valid_query_type(j) ==
    j.t = "string" /\ j.str \in {"call", "new_run", "stop"}

\* properties.if: the schema of a member named "if"
Valid_if(j) ==
    Has(j, "query_type") => j.v["query_type"] = JStr("call")

\* ...then.properties.solution.items: minItems is a keyword for arrays and
\* says nothing about an item that has to be a number
Valid_items(j) == j.t = "number"

\* ...then.properties.solution: an array of valid items, of any length
Valid_solution(j) ==
    j.t = "array" /\ \A k \in 1..Len(j.items) : Valid_items(j.items[k])

\* properties.then: the schema of a member named "then"
Valid_then(j) ==
    j.t = "object" =>
        /\ Has(j, "solution")
        /\ Valid_solution(j.v["solution"])

\* properties.id
Valid_id(j) == j.t = "number"

\* properties.timestamp and properties.remarks
Valid_text(j) == j.t = "string"

\* the whole schema: type object, the six properties, required query_type.
\* "if" and "then" sit under `properties`, so they constrain members of
\* these names and are not the conditional keywords of the schema.
IOHquery(q) ==
    /\ q.t = "object"
    /\ Has(q, "query_type")
    /\ Valid_query_type(q.v["query_type"])
    /\ Has(q, "if") => Valid_if(q.v["if"])
    /\ Has(q, "then") => Valid_then(q.v["then"])
    /\ Has(q, "id") => Valid_id(q.v["id"])
    /\ Has(q, "timestamp") => Valid_text(q.v["timestamp"])
    /\ Has(q, "remarks") => Valid_text(q.v["remarks"])

\* the members a query may carry, each with the values tried for it
QueryMembers ==
    [query_type |-> {JStr("call"), JStr("new_run"), JStr("stop"),
                     JStr("bogus"), JNum(1)},
     solution   |-> {JArr(<<>>), JArr(<<JStr("a")>>), JStr("1 2")} \cup
                    {JArr([k \in 1..n |-> JNum(10)]) : n \in 1..MaxDim},
     if         |-> {JObj([query_type |-> JStr("call")]),
                     JObj([query_type |-> JStr("stop")])},
     then       |-> {JObj(NoFields), JObj([solution |-> JArr(<<>>)]), JNum(0)},
     id         |-> {JNum(1), JStr("one")}]

Queries ==
    UNION {{JObj(f) : f \in {g \in [names -> UNION {QueryMembers[m] :
                                                     m \in DOMAIN QueryMembers}] :
                              \A m \in names : g[m] \in QueryMembers[m]}} :
             names \in SUBSET (DOMAIN QueryMembers)}

\* ------------------------------------------------- PBOProblem (pbo_problem.hpp)
\* largest n_variables
MaxBits == 3

\* largest instance number
MaxInstance == 2

Bits(n) == [1..n -> {0, 1}]

Perms(n) == {f \in [1..n -> 1..n] : \A i, j \in 1..n : f[i] = f[j] => i = j}

\* The instance parameters of a PBO problem: how the variables are
\* transformed (not at all, xor with a mask, or reordered) and the scale and
\* offset of the objective.  They are derived from the instance number.
InstanceParameters(n) ==
    [kind : {"none"}, mask : {[i \in 1..n |-> 0]}, perm : {[i \in 1..n |-> i]},
     scale : {1, 2}, offset : {0, -3}]
    \cup [kind : {"flip"}, mask : Bits(n), perm : {[i \in 1..n |-> i]},
          scale : {1, 2}, offset : {0, -3}]
    \cup [kind : {"reorder"}, mask : {[i \in 1..n |-> 0]}, perm : Perms(n),
          scale : {1, 2}, offset : {0, -3}]

\* utils::dummy(n_variables, 0.9, 10000): floor(0.9 * n) distinct positions
\* of [0, n)
DummySelections(n) ==
    {sel \in [1..((9 * n) \div 10) -> 0..(n - 1)] :
        \A i, j \in DOMAIN sel : sel[i] = sel[j] => i = j}

\* the seed LeadingOnesDummy2 gives utils::dummy
DummySeed == 10000

\* what the seeded generator has drawn so far: (n, seed) |-> selection
NoDraws == [k \in {} |-> <<>>]

Drawn(memo, n, seed, sel) ==
    [k \in (DOMAIN memo) \cup {<<n, seed>>} |->
        IF k = <<n, seed>> THEN sel ELSE memo[k]]

\* a generator that takes no account of its seed: any selection at any call
dummy_unseeded(n, seed, memo) == DummySelections(n)

\* utils::dummy(n, 0.9, seed): the generator is seeded with seed, so what
\* it selects for (n, seed) is the same at every call
dummy(n, seed, memo) ==
    IF <<n, seed>> \in DOMAIN memo THEN {memo[<<n, seed>>]}
    ELSE DummySelections(n)

\* instance parameters that leave the variables as they are
PlainParameters(n) == {p \in InstanceParameters(n) : p.kind = "none"}

Xor(a, b) == IF a = b THEN 0 ELSE 1

transform_variables(params, xv) ==
    CASE params.kind = "none" -> xv
      [] params.kind = "flip" ->
            [i \in 1..Len(xv) |-> Xor(xv[i], params.mask[i])]
      [] params.kind = "reorder" ->
            [i \in 1..Len(xv) |-> xv[params.perm[i]]]

\* the variables that transform_variables maps to xv
reset_transform_variables(params, xv) ==
    CASE params.kind = "none" -> xv
      [] params.kind = "flip" ->
            [i \in 1..Len(xv) |-> Xor(xv[i], params.mask[i])]
      [] params.kind = "reorder" ->
            [i \in 1..Len(xv) |->
                xv[CHOOSE k \in 1..Len(xv) : params.perm[k] = i]]

transform_objectives(params, y) == params.scale * y + params.offset

\* ------------------------------------------------- LeadingOnesDummy2
\* evaluate: the number of leading ones along the selected positions info_
RECURSIVE evaluateLoop(_, _, _, _)
evaluateLoop(info_, xv, i, result) ==
    IF i = Len(info_) THEN result
    ELSE IF xv[info_[i + 1] + 1] = 1 THEN evaluateLoop(info_, xv, i + 1, i + 1)
    ELSE result

evaluate(info_, xv) == evaluateLoop(info_, xv, 0, 0)

\* the constructor without the reset_transform_variables line
LeadingOnesDummy2_keeps_ones(instance, n_variables, info_, params) ==
    [built |-> TRUE, instance |-> instance, n_variables |-> n_variables,
     info_ |-> info_, params |-> params,
     optimum_x |-> [i \in 1..n_variables |-> 1],
     optimum_y |-> transform_objectives(params,
                      evaluate(info_, [i \in 1..n_variables |-> 1]))]

\* the constructor: info_ and params stand for utils::dummy(...) and for the
\* parameters PBOProblem derives from the instance
LeadingOnesDummy2(instance, n_variables, info_, params) ==
    LET x1 == [i \in 1..n_variables |-> 1]
        y1 == evaluate(info_, x1)
        x2 == reset_transform_variables(params, x1)
        y2 == transform_objectives(params, y1)
    IN  [built |-> TRUE, instance |-> instance, n_variables |-> n_variables,
         info_ |-> info_, params |-> params, optimum_x |-> x2, optimum_y |-> y2]

\* operator(): the objective value of xv on the problem p
ProblemCall(p, xv) ==
    transform_objectives(p.params,
        evaluate(p.info_, transform_variables(p.params, xv)))

\* ------------------------------------------------- Scale (logger/eah)
\* A scale is [domain, kind, min, max, size, rounding].  Values are exact
\* fractions: a value is the numerator over the denominator Den(scale),
\* which is size for a real linear scale (whose bin bounds are multiples of
\* 1/size) and 1 otherwise.  Log scales are taken with max - min + 1 a power
\* base^(k * size), for which every bin bound is an integer.
MaxSize == 3

\* largest length max - min of a linear scale
MaxLength == 6

\* largest max - min + 1 of a log scale
MaxLogSpan == 128

RECURSIVE Pow(_, _)
Pow(b, e) == IF e = 0 THEN 1 ELSE b * Pow(b, e - 1)

\* floor of the logarithm of u >= 1 to the base b
RECURSIVE FloorLog(_, _)
FloorLog(b, u) == IF u < b THEN 0 ELSE 1 + FloorLog(b, u \div b)

Base(kind) == IF kind = "log2" THEN 2 ELSE 10

Den(scale) ==
    IF scale.domain = "real" /\ scale.kind = "linear" THEN scale.size ELSE 1

Clamp(i, lo, hi) == IF i < lo THEN lo ELSE IF i > hi THEN hi ELSE i

\* step(): the integer stride of a linear integer scale, the ideal stride
\* (max - min) / size rounded the way the scale rounds
Step(scale) ==
    LET len == scale.max - scale.min
    IN  IF scale.rounding = "floor" THEN len \div scale.size
        ELSE (len + scale.size - 1) \div scale.size

\* the exponent of one bin of a log scale: log(max - min + 1) / size
BinExponent(scale) ==
    FloorLog(Base(scale.kind), scale.max - scale.min + 1) \div scale.size

\* index(v) with the ideal real stride where bounds uses the integer stride
ScaleIndex_ideal_stride(scale, v) ==
    IF scale.kind = "linear"
    THEN Clamp(((v - scale.min * Den(scale)) * scale.size)
                   \div ((scale.max - scale.min) * Den(scale)),
               0, scale.size - 1)
    ELSE IF v - scale.min + 1 < 1 THEN 0
    ELSE Clamp(FloorLog(Base(scale.kind), v - scale.min + 1)
                   \div BinExponent(scale), 0, scale.size - 1)

\* index(v): floor((v - min) / w) for a linear scale, the logarithm of
\* v - min + 1 scaled to the number of bins for a log scale, clamped
ScaleIndex(scale, v) ==
    IF scale.kind = "linear"
    THEN IF scale.domain = "real"
         THEN Clamp((v - scale.min * scale.size) \div (scale.max - scale.min),
                    0, scale.size - 1)
         ELSE Clamp((v - scale.min) \div Step(scale), 0, scale.size - 1)
    ELSE IF v - scale.min + 1 < 1 THEN 0
    ELSE Clamp(FloorLog(Base(scale.kind), v - scale.min + 1)
                   \div BinExponent(scale), 0, scale.size - 1)

\* the lower bound of bin i: min + i * w, or min + base^(i * exponent) - 1
ScaleLo(scale, i) ==
    IF scale.kind = "linear"
    THEN IF scale.domain = "real"
         THEN scale.min * scale.size + i * (scale.max - scale.min)
         ELSE scale.min + i * Step(scale)
    ELSE scale.min + Pow(Base(scale.kind), i * BinExponent(scale)) - 1

\* bounds(i) == (lo, hi): the bin ends where the next one starts
ScaleBounds(scale, i) == [lo |-> ScaleLo(scale, i), hi |-> ScaleLo(scale, i + 1)]

ScaleMins == {-2, 0}

LinearScales ==
    {sc \in [domain : {"integer", "real"}, kind : {"linear"}, min : ScaleMins,
             max : (-2)..MaxLength, size : 1..MaxSize,
             rounding : {"floor", "ceil"}] :
        /\ sc.max > sc.min
        /\ sc.max - sc.min <= MaxLength
        /\ sc.domain = "real" => sc.rounding = "floor"
        /\ sc.domain = "integer" => Step(sc) >= 1}

LogScales ==
    {[domain |-> d, kind |-> kd, min |-> mn,
      max |-> mn + Pow(Base(kd), k * sz) - 1, size |-> sz, rounding |-> "floor"] :
        d \in {"integer", "real"}, kd \in {"log2", "log10"}, mn \in ScaleMins,
        sz \in 1..MaxSize,
        k \in 1..2}

Scales ==
    LinearScales \cup
    {sc \in LogScales : sc.max - sc.min + 1 <= MaxLogSpan}

\* the values a scale is asked to place: from one below min to one above max
ScaleValues(scale) ==
    ((scale.min - 1) * Den(scale))..((scale.max + 1) * Den(scale))

\* ------------------------------------------------- HistogramLogger
\* most evaluations of one problem
MaxEvals == 3

\* most new_run resets of one logger
MaxRuns == 1

NoLogger == [state |-> "none"]

Cells(x_scale, y_scale) == (0..(x_scale.size - 1)) \X (0..(y_scale.size - 1))

EmptyGrid(x_scale, y_scale) == [c \in Cells(x_scale, y_scale) |-> 0]

\* a logger created for a run: Idle -> Logging, nothing counted yet
HistogramLogger(x_scale, y_scale) ==
    [state |-> "logging", x_scale |-> x_scale, y_scale |-> y_scale,
     grid |-> EmptyGrid(x_scale, y_scale), run_id |-> 0]

\* a logger that leaves out the observations its objective scale clamps
Notify_drop_clamped(lg, count, objective_value) ==
    LET tx == ScaleIndex(lg.x_scale, count)
        ty == ScaleIndex(lg.y_scale, objective_value)
    IN  IF objective_value \in
               (lg.y_scale.min * Den(lg.y_scale))..(lg.y_scale.max * Den(lg.y_scale))
        THEN [lg EXCEPT !.grid[<<tx, ty>>] = @ + 1]
        ELSE lg

\* the evaluation notification (eval_count, objective_value):
\* tx = x_scale.index(eval_count), ty = y_scale.index(objective_value),
\* grid[(tx, ty)] += 1
Notify(lg, count, objective_value) ==
    LET tx == ScaleIndex(lg.x_scale, count)
        ty == ScaleIndex(lg.y_scale, objective_value)
    IN  [lg EXCEPT !.grid[<<tx, ty>>] = @ + 1]

\* new_run: the grid is cleared and run_id incremented, the scales stay
new_run(lg) ==
    [lg EXCEPT !.grid = EmptyGrid(lg.x_scale, lg.y_scale), !.run_id = @ + 1]

\* the time axes and objective axes the loggers are created with
XScales ==
    {[domain |-> "integer", kind |-> "linear", min |-> 0, max |-> 2, size |-> 2,
      rounding |-> "floor"],
     [domain |-> "integer", kind |-> "log2", min |-> 1, max |-> 4, size |-> 2,
      rounding |-> "floor"]}

YScales ==
    {[domain |-> "real", kind |-> "linear", min |-> 0, max |-> 2, size |-> 2,
      rounding |-> "floor"],
     [domain |-> "integer", kind |-> "log10", min |-> 0, max |-> 99, size |-> 2,
      rounding |-> "floor"]}

\* objective values: below the scale, its minimum, the start of its second
\* bin, above the scale
ObjectiveValues(scale) ==
    {(scale.min - 1) * Den(scale), scale.min * Den(scale), ScaleLo(scale, 1),
     (scale.max + 1) * Den(scale)}

\* ------------------------------------------------- state machine
NoProb == [built |-> FALSE]

Init ==
    /\ pc = "ready"
    /\ op = "none"
    /\ args = <<>>
    /\ x = <<>>
    /\ Os = <<>>
    /\ Mr = <<>>
    /\ SS = <<>>
    /\ ret = 0
    /\ outcome = "none"
    /\ prob = NoProb
    /\ logger = NoLogger
    /\ eval_count = 0
    /\ calls = 0
    /\ rng = NoDraws

\* a call of sr_func(x, Os, Mr, sh_rate, s_flag, r_flag, nx)
CallSrFunc ==
    /\ pc = "ready"
    /\ \E x0 \in Vectors(XVals, MaxDim), OsV \in Vectors(OsVals, MaxDim),
          MrV \in MrTables, sh_rate \in ShRates,
          s_flag \in BOOLEAN, r_flag \in BOOLEAN, nx \in (-1)..MaxDim :
          LET r == sr_func(x0, OsV, MrV, sh_rate, s_flag, r_flag, nx)
          IN  /\ x' = r.x
              /\ Os' = OsV
              /\ Mr' = MrV
              /\ outcome' = IF r.ok THEN "returned" ELSE "out_of_range"
              /\ args' = [x0 |-> x0, sh_rate |-> sh_rate, s_flag |-> s_flag,
                          r_flag |-> r_flag, nx |-> nx]
    /\ op' = "sr_func"
    /\ pc' = "done"
    /\ UNCHANGED <<SS, ret, prob, logger, eval_count, calls, rng>>

\* a call of getFunctionBias(biasFlag, fnNumber)
CallGetFunctionBias ==
    /\ pc = "ready"
    /\ \E biasFlag \in {-1, 0, 1, 2}, fnNumber \in 0..MaxFn :
       \E indet \in (IF biasFlag # 0 /\ (fnNumber - 1) \notin 0..9
                     THEN IndetVals ELSE {0}) :
          /\ ret' = getFunctionBias(biasFlag, fnNumber, indet)
          /\ args' = [biasFlag |-> biasFlag, fnNumber |-> fnNumber,
                      reads |-> BiasReads(biasFlag, fnNumber)]
    /\ op' = "getFunctionBias"
    /\ outcome' = "returned"
    /\ pc' = "done"
    /\ UNCHANGED <<x, Os, Mr, SS, prob, logger, eval_count, calls, rng>>

\* the arguments of a loader call, the file its path names and the loop bound
LoaderArgs(before, file, dim, fn, cecVersion, size) ==
    [before |-> before, file |-> file, dim |-> dim, fn |-> fn,
     cecVersion |-> cecVersion, size |-> size,
     reads |-> CfReads(fn, cecVersion)]

\* a call of loadMatrixData(&Mr, dataPath, dim, fn, cecVersion)
CallLoadMatrixData ==
    /\ pc = "ready"
    /\ \E before \in PriorVectors, file \in Files, dim \in 0..MaxDim,
          fn \in 0..MaxFn, cecVersion \in Versions :
       \E indetTab \in TableIndets(fn, cecVersion), indetVal \in ValueIndets(file) :
          /\ Mr' = loadMatrixData(before, file, dim, fn, cecVersion,
                                  indetTab, indetVal)
          /\ args' = LoaderArgs(before, file, dim, fn, cecVersion,
                                MatrixSize(dim, fn, cecVersion, indetTab))
    /\ op' = "loadMatrixData"
    /\ outcome' = "returned"
    /\ pc' = "done"
    /\ UNCHANGED <<x, Os, SS, ret, prob, logger, eval_count, calls, rng>>

\* a call of loadOShiftData(&Os, dataPath, dim, fn, cecVersion)
CallLoadOShiftData ==
    /\ pc = "ready"
    /\ \E before \in PriorVectors, file \in Files, dim \in 0..MaxDim,
          fn \in 0..MaxFn, cecVersion \in Versions :
       \E indetTab \in TableIndets(fn, cecVersion), indetVal \in ValueIndets(file) :
          /\ Os' = loadOShiftData(before, file, dim, fn, cecVersion,
                                  indetTab, indetVal)
          /\ args' = LoaderArgs(before, file, dim, fn, cecVersion,
                                OShiftSize(dim, fn, cecVersion, indetTab))
    /\ op' = "loadOShiftData"
    /\ outcome' = "returned"
    /\ pc' = "done"
    /\ UNCHANGED <<x, Mr, SS, ret, prob, logger, eval_count, calls, rng>>

\* a call of loadShuffleData(&SS, dataPath, dim, fn, cecVersion)
CallLoadShuffleData ==
    /\ pc = "ready"
    /\ \E before \in PriorVectors, file \in Files, dim \in 0..MaxDim,
          fn \in 0..MaxFn, cecVersion \in Versions :
       \E indetTab \in TableIndets(fn, cecVersion), indetVal \in ValueIndets(file) :
          /\ SS' = loadShuffleData(before, file, dim, fn, cecVersion,
                                   indetTab, indetVal)
          /\ args' = LoaderArgs(before, file, dim, fn, cecVersion,
                                ShuffleSize(dim, fn, cecVersion, indetTab))
    /\ op' = "loadShuffleData"
    /\ outcome' = "returned"
    /\ pc' = "done"
    /\ UNCHANGED <<x, Os, Mr, ret, prob, logger, eval_count, calls, rng>>

\* a query is validated against the IOHquery schema
ValidateQuery ==
    /\ pc = "ready"
    /\ \E q \in Queries :
          /\ args' = [query |-> q]
          /\ outcome' = IF IOHquery(q) THEN "accepted" ELSE "rejected"
    /\ op' = "validate"
    /\ pc' = "done"
    /\ UNCHANGED <<x, Os, Mr, SS, ret, prob, logger, eval_count, calls, rng>>

\* LeadingOnesDummy2(instance, n_variables) is constructed
Construct ==
    /\ pc = "ready"
    /\ \E instance \in 1..MaxInstance, n_variables \in 1..MaxBits :
       \E info_ \in dummy(n_variables, DummySeed, rng),
          params \in InstanceParameters(n_variables) :
          /\ prob' = LeadingOnesDummy2(instance, n_variables, info_, params)
          /\ rng' = Drawn(rng, n_variables, DummySeed, info_)
    /\ op' = "LeadingOnesDummy2"
    /\ pc' = "constructed"
    /\ UNCHANGED <<args, x, Os, Mr, SS, ret, outcome, logger, eval_count, calls>>

\* a second LeadingOnesDummy2 is constructed in the same process; args keeps
\* what the first one was constructed with and its mask
Reconstruct ==
    /\ pc = "constructed"
    /\ \E instance \in 1..MaxInstance, n_variables \in 1..MaxBits :
       \E info_ \in dummy(n_variables, DummySeed, rng),
          params \in PlainParameters(n_variables) :
          /\ prob' = LeadingOnesDummy2(instance, n_variables, info_, params)
          /\ rng' = Drawn(rng, n_variables, DummySeed, info_)
    /\ args' = [previous |-> [instance |-> prob.instance,
                              n_variables |-> prob.n_variables,
                              info_ |-> prob.info_]]
    /\ op' = "LeadingOnesDummy2"
    /\ pc' = "reconstructed"
    /\ UNCHANGED <<x, Os, Mr, SS, ret, outcome, logger, eval_count, calls>>

\* the constructed problem is called on a bit string
CallProblem ==
    /\ pc = "constructed"
    /\ \E xv \in Bits(prob.n_variables) :
          /\ args' = [x |-> xv]
          /\ ret' = ProblemCall(prob, xv)
    /\ op' = "call"
    /\ outcome' = "returned"
    /\ pc' = "evaluated"
    /\ UNCHANGED <<x, Os, Mr, SS, prob, logger, eval_count, calls, rng>>

\* a call of scale.index(v)
CallScaleIndex ==
    /\ pc = "ready"
    /\ \E scale \in Scales :
       \E v \in ScaleValues(scale) :
          /\ ret' = ScaleIndex(scale, v)
          /\ args' = [scale |-> scale, v |-> v]
    /\ op' = "Scale.index"
    /\ outcome' = "returned"
    /\ pc' = "done"
    /\ UNCHANGED <<x, Os, Mr, SS, prob, logger, eval_count, calls, rng>>

\* a fresh problem gets a HistogramLogger attached: Idle -> Logging
AttachLogger ==
    /\ pc = "ready"
    /\ \E x_scale \in XScales, y_scale \in YScales :
          logger' = HistogramLogger(x_scale, y_scale)
    /\ eval_count' = 0
    /\ calls' = 0
    /\ op' = "attach"
    /\ pc' = "logging"
    /\ UNCHANGED <<args, x, Os, Mr, SS, ret, outcome, prob, rng>>

\* one evaluation call: the counter is updated, then the logger is notified
Evaluate ==
    /\ pc = "logging"
    /\ calls < MaxEvals
    /\ \E objective_value \in ObjectiveValues(logger.y_scale) :
          /\ eval_count' = eval_count + 1
          /\ logger' = Notify(logger, eval_count + 1, objective_value)
          /\ args' = [objective_value |-> objective_value, before |-> logger.grid]
          /\ ret' = objective_value
    /\ calls' = calls + 1
    /\ op' = "evaluate"
    /\ outcome' = "returned"
    /\ UNCHANGED <<pc, x, Os, Mr, SS, prob, rng>>

\* new_run: eval_count back to 0, the grid cleared
NewRun ==
    /\ pc = "logging"
    /\ logger.run_id < MaxRuns
    /\ logger' = new_run(logger)
    /\ eval_count' = 0
    /\ op' = "new_run"
    /\ UNCHANGED <<pc, args, x, Os, Mr, SS, ret, outcome, prob, calls, rng>>

\* run end: Logging -> Idle, the grid is the run's result
StopRun ==
    /\ pc = "logging"
    /\ logger' = [logger EXCEPT !.state = "idle"]
    /\ op' = "stop"
    /\ pc' = "done"
    /\ UNCHANGED <<args, x, Os, Mr, SS, ret, outcome, prob, eval_count, calls, rng>>

Next ==
    \/ CallSrFunc
    \/ CallGetFunctionBias
    \/ CallLoadMatrixData
    \/ CallLoadOShiftData
    \/ CallLoadShuffleData
    \/ ValidateQuery
    \/ Construct
    \/ Reconstruct
    \/ CallProblem
    \/ CallScaleIndex
    \/ AttachLogger
    \/ Evaluate
    \/ NewRun
    \/ StopRun

Spec == Init /\ [][Next]_vars

\* ------------------------------------------------- properties of sr_func
IsSrCall == op = "sr_func"

\* x, Os and Mr all hold what a call with dimension nx reads
Sufficient ==
    /\ Len(args.x0) >= args.nx
    /\ Len(Os) >= args.nx
    /\ Len(Mr) >= args.nx * args.nx

\* sum over j in [from, nx) of Mr[i*nx+j] * v[j]   (C++ indices)
RECURSIVE RowDot(_, _, _, _, _)
RowDot(MrV, v, nx, i, from) ==
    IF from >= nx THEN 0
    ELSE MrV[i * nx + from + 1] * v[from + 1] + RowDot(MrV, v, nx, i, from + 1)

\* sh_rate * (x0[j] - Os[j]), the subtraction only with s_flag
ShiftedScaled(j) ==
    args.sh_rate * (args.x0[j + 1] - (IF args.s_flag THEN Os[j + 1] ELSE 0))

\* C1: sr_func shifts, then scales, then rotates, each step on the output of
\* the previous one: with r_flag the final x[i] is the sum over j of
\* Mr[i*nx+j] * sh_rate * (x0[j] - Os[j]); without s_flag the subtraction is
\* omitted; the scale is applied in every case (also without rotation).
C1_ShiftScaleRotate ==
    (IsSrCall /\ args.nx > 0 /\ Sufficient) =>
        /\ outcome = "returned"
        /\ \A i \in 0..(args.nx - 1) :
              x[i + 1] =
                 IF args.r_flag
                 THEN RowDot(Mr, [j \in 1..args.nx |-> ShiftedScaled(j - 1)],
                             args.nx, i, 0)
                 ELSE ShiftedScaled(i)

C1_Witness ==
    /\ IsSrCall /\ args.nx = MaxDim /\ Sufficient
    /\ args.s_flag /\ args.r_flag
    /\ outcome = "returned"
    /\ x # args.x0

\* C2: with r_flag false the result is sh_rate * (x0[i] - Os[i]) (sh_rate *
\* x0[i] without s_flag) for every i < nx, the other entries of x are
\* untouched, and Mr is never read: the call returns normally for any Mr,
\* also an empty or too short one.
C2_NoRotationNoMatrix ==
    (IsSrCall /\ ~args.r_flag /\ Len(args.x0) >= args.nx
        /\ (args.s_flag => Len(Os) >= args.nx)) =>
        /\ outcome = "returned"
        /\ Len(x) = Len(args.x0)
        /\ \A i \in 0..(Len(x) - 1) :
              x[i + 1] = IF i < args.nx THEN ShiftedScaled(i) ELSE args.x0[i + 1]

C2_Witness ==
    /\ IsSrCall /\ ~args.r_flag /\ args.nx = MaxDim
    /\ Len(args.x0) = MaxDim /\ Len(Os) = MaxDim
    /\ Len(Mr) < args.nx * args.nx
    /\ outcome = "returned"

\* C3 as stated: the right operand of the rotation is the vector as it stood
\* before the shift and scale steps (x on entry).
C3_OperandIsEntryVector ==
    (IsSrCall /\ args.r_flag /\ args.nx > 0 /\ outcome = "returned") =>
        \A i \in 0..(args.nx - 1) :
            x[i + 1] = RowDot(Mr, args.x0, args.nx, i, 0)

\* C3 amended: the rotation is the row-major matrix-vector product whose
\* right operand is the vector as it stands after the shift and scale steps
\* (the copy taken on entry to rotatefunc), the same operand for every output
\* coordinate.
C3_OperandIsShiftedScaledVector ==
    (IsSrCall /\ args.r_flag /\ args.nx > 0 /\ outcome = "returned") =>
        LET operand == [j \in 1..args.nx |-> ShiftedScaled(j - 1)]
        IN  \A i \in 0..(args.nx - 1) :
                x[i + 1] = RowDot(Mr, operand, args.nx, i, 0)

C3_Witness ==
    /\ IsSrCall /\ args.r_flag /\ args.nx = MaxDim /\ outcome = "returned"
    /\ \E i \in 1..MaxDim : x[i] # RowDot(Mr, args.x0, args.nx, i - 1, 0)

\* entry k (C++ index) of v, read as 0 when v is too short
Padded(v, k) == IF k < Len(v) THEN v[k + 1] ELSE 0

\* a call that needs a table entry that is not there
ReadsMissingEntry ==
    \/ args.s_flag /\ Len(Os) < args.nx
    \/ args.r_flag /\ Len(Mr) < args.nx * args.nx

\* C7 as stated: a call with an Os of fewer than nx entries or an Mr of
\* fewer than nx*nx entries returns normally with the result the zero-padded
\* tables give.
C7_ShortTablesZeroPadded ==
    (IsSrCall /\ args.nx > 0 /\ Len(args.x0) >= args.nx
        /\ (Len(Os) < args.nx \/ Len(Mr) < args.nx * args.nx)) =>
        /\ outcome = "returned"
        /\ LET v == [j \in 1..args.nx |->
                       args.sh_rate * (args.x0[j]
                          - (IF args.s_flag THEN Padded(Os, j - 1) ELSE 0))]
               M == [k \in 1..(args.nx * args.nx) |-> Padded(Mr, k - 1)]
           IN  \A i \in 0..(args.nx - 1) :
                   x[i + 1] = IF args.r_flag THEN RowDot(M, v, args.nx, i, 0)
                              ELSE v[i + 1]

\* C7 amended: nothing is padded.  A call (nx > 0, x long enough) ends in
\* std::out_of_range exactly when it reads a missing entry: s_flag is set
\* and Os has fewer than nx entries, or r_flag is set and Mr has fewer than
\* nx*nx entries; a short table is harmless only when its step is disabled.
C7_ShortTablesThrow ==
    (IsSrCall /\ args.nx > 0 /\ Len(args.x0) >= args.nx) =>
        (outcome = "out_of_range" <=> ReadsMissingEntry)

C7_Witness ==
    /\ IsSrCall /\ args.nx = MaxDim /\ Len(args.x0) = MaxDim
    /\ args.s_flag /\ Len(Os) < args.nx
    /\ outcome = "out_of_range"

\* ------------------------------------------------- properties of the loaders
IsLoaderCall == op \in {"loadMatrixData", "loadOShiftData", "loadShuffleData"}

\* the vector the last loader call appended to
Loaded ==
    CASE op = "loadMatrixData" -> Mr
      [] op = "loadOShiftData" -> Os
      [] op = "loadShuffleData" -> SS

Min(a, b) == IF a <= b THEN a ELSE b

\* C4 as stated: a loader whose file cannot be opened ends in a
\* DataFileUnavailable error and does not return normally to its caller.
C4_MissingFileFailsFast ==
    (IsLoaderCall /\ ~args.file.exists) => outcome = "DataFileUnavailable"

\* element k of a loaded table is the file's number h (in halves)
SameNumber(el, h) == IF op = "loadShuffleData" THEN 2 * el = h ELSE el = h

\* C5 as stated: for a file holding T numbers, with or without trailing
\* whitespace, and an expected count E >= 0 the loader appends exactly
\* min(E, T) elements, the first min(E, T) numbers of the file in file order.
C5_ReadsMinOfExpectedAndFile ==
    (IsLoaderCall /\ args.file.exists /\ args.size >= 0) =>
        LET n == Min(args.size, Len(args.file.vals))
            b == Len(args.before)
        IN  /\ Len(Loaded) = b + n
            /\ SubSeq(Loaded, 1, b) = args.before
            /\ \A k \in 1..n : SameNumber(Loaded[b + k], args.file.vals[k])

SupportedVersions == {2014, 2015, 2017, 2019, 2021, 2022}

\* a function number of the suite whose table reads stay inside cf_nums
SuiteFn == args.fn >= 1 /\ (args.cecVersion = 2015 => args.fn <= 15)

\* the call started from an empty vector and its file holds at least the
\* numbers the loader asks for and the numbers the claim expects
CompleteLoad(expected) ==
    /\ args.cecVersion \in SupportedVersions /\ SuiteFn
    /\ args.before = <<>>
    /\ args.file.exists
    /\ Len(args.file.vals) >= args.size
    /\ Len(args.file.vals) >= expected

MatrixThreshold(v) ==
    CASE v = 2014 -> 23 [] v = 2015 -> -1 [] v = 2017 -> 20
      [] v = 2019 -> 100 [] v = 2021 -> 7 [] v = 2022 -> 9

OShiftThreshold(v) ==
    CASE v = 2014 -> 23 [] v = 2015 -> 0 [] v = 2017 -> 20
      [] v = 2019 -> 100 [] v = 2021 -> -1 [] v = 2022 -> 9

\* the number of rotation matrices of a composition function
MatrixCount(v, f) ==
    CASE v \in {2014, 2017, 2021} -> 10
      [] v = 2015 -> <<1, 1, 1, 1, 1, 1, 1, 1, 3, 3, 5, 5, 5, 7, 10>>[f]
      [] v = 2019 -> 1
      [] v = 2022 -> 12

C8_BiasFromFixedTable ==
    (op = "getFunctionBias" /\ args.fnNumber \in 1..10) =>
        ret = IF args.biasFlag = 0 THEN 0
              ELSE CASE args.fnNumber = 1 -> 100  [] args.fnNumber = 2 -> 1100
                     [] args.fnNumber = 3 -> 700  [] args.fnNumber = 4 -> 1900
                     [] args.fnNumber = 5 -> 1700 [] args.fnNumber = 6 -> 1600
                     [] args.fnNumber = 7 -> 2100 [] args.fnNumber = 8 -> 2200
                     [] args.fnNumber = 9 -> 2400 [] args.fnNumber = 10 -> 2500

C8_Witness ==
    op = "getFunctionBias" /\ args.fnNumber = 10 /\ args.biasFlag # 0 /\ ret = 2500

EmptyCallQuery(q) ==
    /\ Has(q, "query_type") /\ q.v["query_type"] = JStr("call")
    /\ Has(q, "solution") /\ q.v["solution"] = JArr(<<>>)

\* C10 as stated: sr_func with nx <= 0 ends in an InvalidDimension error
\* instead of returning normally, and a call query whose solution array is
\* empty is not accepted.
C10_ZeroLengthRejected ==
    /\ (IsSrCall /\ args.nx <= 0) => outcome = "InvalidDimension"
    /\ (op = "validate" /\ EmptyCallQuery(args.query)) => outcome = "rejected"

\* ------------------------------------------------- the query schema
\* a solution as the interface wants it: an array of numbers, at least one
NonEmptyNumberArray(j) ==
    /\ j.t = "array"
    /\ Len(j.items) >= 1
    /\ \A k \in 1..Len(j.items) : j.items[k].t = "number"

\* C11 as stated: the schema accepts a query only if it has a query_type out
\* of call, new_run, stop and, when the query_type is call, a solution that
\* is an array of numbers of length >= 1; every other query is rejected.
C11_CallNeedsSolution ==
    (op = "validate" /\ outcome = "accepted") =>
        LET q == args.query
        IN  /\ Has(q, "query_type")
            /\ q.v["query_type"] \in {JStr("call"), JStr("new_run"), JStr("stop")}
            /\ q.v["query_type"] = JStr("call") =>
                  /\ Has(q, "solution")
                  /\ NonEmptyNumberArray(q.v["solution"])

\* ------------------------------------------------- table accesses
\* C15 as stated: every table access stays within the table: for a function
\* number 1..12 (the CEC 2022 suite) and any biasFlag getFunctionBias reads
\* its 10-entry table at a position in [0, 9], and for cecVersion 2015 the
\* loaders read the 16-entry coefficient table at a position in [0, 15].
C15_TableReadsInRange ==
    /\ (op = "getFunctionBias" /\ args.fnNumber \in 1..12)
          => args.reads \subseteq 0..9
    /\ (IsLoaderCall /\ args.cecVersion = 2015 /\ args.fn \in 1..15)
          => args.reads \subseteq 0..15

RECURSIVE SumOver(_, _)
SumOver(f, S) ==
    IF S = {} THEN 0
    ELSE LET c == CHOOSE e \in S : TRUE IN f[c] + SumOver(f, S \ {c})

GridSum(grid) == SumOver(grid, DOMAIN grid)

\* C13: after N evaluation calls on a fresh problem with an attached
\* HistogramLogger, eval_count is N and the grid cells sum to N; every
\* evaluation adds one to exactly one cell, the cell
\* (x_scale.index(eval_count), y_scale.index(objective_value)).
C13_OneCountPerEvaluation ==
    /\ (logger.state # "none" /\ logger.run_id = 0) =>
          /\ eval_count = calls
          /\ GridSum(logger.grid) = calls
    /\ op = "evaluate" =>
          LET tx == ScaleIndex(logger.x_scale, eval_count)
              ty == ScaleIndex(logger.y_scale, args.objective_value)
          IN  /\ \A c \in DOMAIN logger.grid :
                    logger.grid[c] =
                        args.before[c] + (IF c = <<tx, ty>> THEN 1 ELSE 0)
              /\ <<tx, ty>> \in DOMAIN logger.grid

C13_Witness ==
    /\ op = "evaluate"
    /\ logger.run_id = 0
    /\ calls = MaxEvals
    /\ eval_count = MaxEvals
    /\ GridSum(logger.grid) = MaxEvals
    /\ args.objective_value > logger.y_scale.max * Den(logger.y_scale)
    /\ \E c \in DOMAIN logger.grid : logger.grid[c] >= 2

\* ------------------------------------------------- properties of the mask
\* the number of positions a mask of target density 0.9 selects
MaskSize(n) == (9 * n) \div 10

IsMask(info_, n) ==
    /\ Len(info_) = MaskSize(n)
    /\ \A i \in 1..Len(info_) : info_[i] \in 0..(n - 1)
    /\ \A i, j \in 1..Len(info_) : info_[i] = info_[j] => i = j

Seeds == {k[2] : k \in DOMAIN rng}

\* C14 as stated: the mask of LeadingOnesDummy2 selects positions of
\* [0, n_variables) of target density 0.9 and is chosen deterministically
\* from the instance seed: constructions with the same instance and
\* n_variables have the same mask, and constructions with different
\* instances draw it from different seeds.
C14_MaskFromInstanceSeed ==
    /\ prob.built => IsMask(prob.info_, prob.n_variables)
    /\ pc = "reconstructed" =>
          /\ (/\ args.previous.instance = prob.instance
              /\ args.previous.n_variables = prob.n_variables)
                => args.previous.info_ = prob.info_
          /\ args.previous.instance # prob.instance => Cardinality(Seeds) >= 2

\* C14, amended: the mask selects floor(0.9 * n_variables) distinct positions
\* of [0, n_variables), drawn from the fixed seed 10000: it is a function of
\* n_variables alone, the same on every construction with the same
\* n_variables whatever the instance.
C14_MaskFromFixedSeed ==
    /\ prob.built => IsMask(prob.info_, prob.n_variables)
    /\ pc = "reconstructed" =>
          /\ Seeds = {DummySeed}
          /\ args.previous.n_variables = prob.n_variables
                => args.previous.info_ = prob.info_

C14_Witness ==
    /\ pc = "reconstructed"
    /\ args.previous.instance # prob.instance
    /\ args.previous.n_variables = MaxBits
    /\ prob.n_variables = MaxBits
    /\ args.previous.info_ = prob.info_
    /\ Len(prob.info_) >= 2

====
